---- MODULE Spec2Model ----
(***************************************************************************)
(* The ILGC research-study front end: the task form, the timed task        *)
(* session, the results / assessment page, the landing page and the        *)
(* ApiService they call.  localStorage, each page's React state, the       *)
(* requests in flight (each with the handler continuation that awaits it)  *)
(* and the wall clock are the state; every handler is one action, split    *)
(* only at its await.                                                      *)
(*                                                                         *)
(* Text values are TLA+ strings, except participantId, which is a sequence *)
(* of characters so that the /^\d+$/ test can be evaluated on it.          *)
(***************************************************************************)
EXTENDS Integers, Sequences, FiniteSets, TLC

\* ------------------------------------------------------------- bounds
\* The wall clock runs from 0 to MaxTime milliseconds.
MaxTime == 2000
\* At most MaxPending requests are in flight at once.
MaxPending == 2

\* ---------------------------------------------------------- constants
\* setInterval(..., 1000)
TimerInterval == 1000
\* Math.floor((now - startTime) / 1000)
MsPerSecond == 1000
\* The clock advances in half timer intervals.
ClockStep == TimerInterval \div 2

\* ------------------------------------------------------------ values
\* null / undefined, and a present value
Null == <<>>
Some(v) == <<v>>
Val(o) == o[1]

\* JSON.stringify / JSON.parse on the objects the pages store and send
\* (strings, string arrays, booleans and integers: the text determines the
\* value and the value the text)
JSONstringify(v) == [json |-> v]
JSONparse(s) == s.json

\* new Date().toISOString() and new Date(iso).getTime(), to the millisecond
toISOString(ms) == [iso |-> ms]
getTime(s) == s.iso

Routes == {"/", "/task-form", "/task-session", "/task-results"}
Variants == {"mac", "windows"}
StorageKeys == {"currentTask", "completedTask", "sessionResults"}

\* ------------------------------------------------------- TaskForm data
FormFields == {"name", "participantId", "batch", "taskDescription", "estimatedTime", "systemType"}
Categories == {"coding"}
Digits == {"0", "1", "2", "3", "4", "5", "6", "7", "8", "9"}

\* What the user can enter into each input
Entries(field) ==
  CASE field = "name" -> {"Ann"}
    [] field = "participantId" -> {<<"7">>, <<"-", "1">>}
    [] field = "batch" -> {"UG26"}
    [] field = "taskDescription" -> {"essay"}
    [] field = "estimatedTime" -> {"30"}
    [] field = "systemType" -> {"system1"}

\* A text input can also be cleared again; a Select or RadioGroup only ever
\* takes one of its items.
InputValues(field) ==
  CASE field = "name" -> Entries(field) \cup {""}
    [] field = "participantId" -> Entries(field) \cup {<<>>}
    [] field = "taskDescription" -> Entries(field) \cup {""}
    [] OTHER -> Entries(field)

InitialFormData ==
  [name |-> "", participantId |-> <<>>, batch |-> "", category |-> <<>>,
   taskDescription |-> "", estimatedTime |-> "", systemType |-> ""]

\* array.filter(c => c !== x)
Without(s, x) == SelectSeq(s, LAMBDA c : c # x)

\* FormIncomplete without its last test
FormIncompleteSkipsSystemType(fd) ==
  \/ fd.name = ""
  \/ Len(fd.participantId) = 0
  \/ fd.batch = ""
  \/ Len(fd.category) = 0
  \/ fd.taskDescription = ""
  \/ fd.estimatedTime = ""

\* if (!formData.name || ... || formData.category.length === 0 || ...)
FormIncomplete(fd) ==
  \/ fd.name = ""
  \/ Len(fd.participantId) = 0
  \/ fd.batch = ""
  \/ Len(fd.category) = 0
  \/ fd.taskDescription = ""
  \/ fd.estimatedTime = ""
  \/ fd.systemType = ""

\* /^\d+$/.test(participantId)
IsNumber(pid) == Len(pid) > 0 /\ \A i \in 1..Len(pid) : pid[i] \in Digits

\* const taskData = { ...formData, startTime: new Date().toISOString() }
MakeTaskData(fd, t) ==
  [name |-> fd.name, participantId |-> fd.participantId, batch |-> fd.batch,
   category |-> fd.category, taskDescription |-> fd.taskDescription,
   estimatedTime |-> fd.estimatedTime, systemType |-> fd.systemType,
   startTime |-> toISOString(t)]

\* --------------------------------------------------- TaskResults data
NasaTlxFields == {"mental", "physical", "temporal", "performance", "effort", "frustration"}
LikertFields == {"accuracy", "effectiveness", "personalisation"}
Answers == {"3"}
InitialNasaTlx == [f \in NasaTlxFields |-> ""]
InitialLikert == [f \in LikertFields |-> ""]

\* Object.values(x).every(v => v !== "")
Complete(answers) == \A f \in DOMAIN answers : answers[f] # ""

\* ---------------------------------------------------------- ApiService
\* this.baseURL = 'http://localhost:5000/api', as origin and path segments
baseURL == <<"http://localhost:5000", "api">>

ApiMethods ==
  {"saveTaskDetailsAndStart", "stopInterventions", "saveAssessment",
   "saveFeedback", "getStatus", "getTaskDetails"}

\* The path segment each method appends to baseURL
Endpoint(api) ==
  CASE api = "saveTaskDetailsAndStart" -> "save-task-details"
    [] api = "stopInterventions" -> "stop-interventions"
    [] api = "saveAssessment" -> "save-assessment"
    [] api = "saveFeedback" -> "save-feedback"
    [] api = "getStatus" -> "status"
    [] api = "getTaskDetails" -> "get-task-details"

\* The method of the fetch: "POST" where the options say so, else fetch's GET
HttpMethod(api) ==
  IF api \in {"saveTaskDetailsAndStart", "stopInterventions", "saveAssessment", "saveFeedback"}
  THEN "POST" ELSE "GET"

\* Whether the method passes a body: JSON.stringify(its argument)
SendsBody(api) == api \in {"saveTaskDetailsAndStart", "saveAssessment", "saveFeedback"}

\* The one fetch a method issues
Fetch(api, data) ==
  [method |-> HttpMethod(api),
   url |-> baseURL \o <<Endpoint(api)>>,
   body |-> IF SendsBody(api) THEN Some(JSONstringify(data)) ELSE Null]

\* How a fetch can end: it fails (network error), or a response arrives whose
\* body parses as JSON or does not, with an OK status or another one.
ResponseBodies(api) ==
  CASE api = "saveTaskDetailsAndStart" ->
         {[status |-> "success", interventionsStarted |-> TRUE],
          [status |-> "success", interventionsStarted |-> FALSE]}
    [] api = "stopInterventions" ->
         {[status |-> "success", message |-> "stopped"],
          [status |-> "error", message |-> "not running"]}
    [] api = "saveAssessment" ->
         {[status |-> "success", isNewFile |-> TRUE, totalEntries |-> 1],
          [status |-> "success", isNewFile |-> FALSE, totalEntries |-> 2]}
    [] OTHER -> {[status |-> "success"]}

ErrorBody == [status |-> "error", message |-> "server error"]

Outcomes(api) ==
  {[fetched |-> FALSE, parsed |-> FALSE, ok |-> FALSE, body |-> Null]}
  \cup {[fetched |-> TRUE, parsed |-> FALSE, ok |-> k, body |-> Null] : k \in BOOLEAN}
  \cup {[fetched |-> TRUE, parsed |-> TRUE, ok |-> TRUE, body |-> Some(b)] : b \in ResponseBodies(api)}
  \cup {[fetched |-> TRUE, parsed |-> TRUE, ok |-> FALSE, body |-> Some(ErrorBody)]}

\* A settled promise
Resolved(v) == [resolved |-> TRUE, value |-> v]
Rejected(e) == [resolved |-> FALSE, value |-> e]

\* ResponseOk that never throws
ResponseOkAlways(o) == TRUE

\* if (!response.ok) throw ...
ResponseOk(o) == o.ok

\* The body of every method after its fetch: await fetch (throws on a network
\* error), await response.json() (throws on a body that is no JSON),
\* throw unless response.ok, return result; the catch logs and rethrows.
ApiSettle(o) ==
  IF ~o.fetched THEN Rejected("Failed to fetch")
  ELSE IF ~o.parsed THEN Rejected("Unexpected token")
  ELSE IF ~ResponseOk(o) THEN Rejected(Val(o.body).message)
  ELSE Resolved(Val(o.body))

\* -------------------------------------------------------------- state
VARIABLES
  variant,          \* which build's results page is installed: "mac" or "windows"
  now,              \* the wall clock, in milliseconds
  page,             \* the route shown
  hist,             \* the routes in this document's session history
  localStorage,     \* key -> Null or Some(text)
  toast,            \* the title of the toast last shown, if any
  pending,          \* the requests in flight, each with the handler awaiting it
  formData,         \* TaskForm
  taskData,         \* TaskSession: the task loaded at mount
  elapsedTime,      \* TaskSession
  isEndingSession,  \* TaskSession
  timer,            \* TaskSession: Null, or Some(time the interval was set or last fired)
  resultsTaskData,  \* TaskResults: the completed task loaded at mount
  uploadedFile,     \* TaskResults (mac)
  isSubmitting,     \* TaskResults (mac)
  nasaTlx,          \* TaskResults (mac)
  likertResponses,  \* TaskResults (mac)
  lastCall          \* the ApiService call last settled when called directly, if any

formVars == <<formData>>
sessionVars == <<taskData, elapsedTime, isEndingSession, timer>>
resultsVars == <<resultsTaskData, uploadedFile, isSubmitting, nasaTlx, likertResponses>>
pageVars == <<page, hist, formData, taskData, elapsedTime, isEndingSession, timer,
              resultsTaskData, uploadedFile, isSubmitting, nasaTlx, likertResponses>>
vars == <<variant, now, page, hist, localStorage, toast, pending, formData,
          taskData, elapsedTime, isEndingSession, timer,
          resultsTaskData, uploadedFile, isSubmitting, nasaTlx, likertResponses, lastCall>>

EmptyStorage == [k \in StorageKeys |-> Null]

\* localStorage.getItem / setItem / removeItem
getItem(ls, k) == ls[k]
setItem(ls, k, text) == [ls EXCEPT ![k] = Some(text)]
removeItem(ls, k) == [ls EXCEPT ![k] = Null]

RemoveAt(s, i) == SubSeq(s, 1, i - 1) \o SubSeq(s, i + 1, Len(s))

\* A component that unmounts leaves its handlers running: their later state
\* updates reach no mounted component.
Orphaned(pend) == [i \in DOMAIN pend |-> [pend[i] EXCEPT !.live = FALSE]]

\* TaskSession's effect: const storedTask = localStorage.getItem("currentTask")
SessionStoredTask(ls) == getItem(ls, "currentTask")

\* if (!storedTask) { navigate("/task-form"); return; }
SessionRedirects(ls) == SessionStoredTask(ls) = Null

\* ResultsStoredTask reading the session page's key
ResultsStoredTaskWrongKey(ls) == getItem(ls, "currentTask")

\* TaskResults' effect: const storedTask = localStorage.getItem("completedTask")
ResultsStoredTask(ls) == getItem(ls, "completedTask")

\* if (!storedTask) { navigate("/"); return; }
ResultsRedirects(ls) == ResultsStoredTask(ls) = Null

\* Landing sending the results page's redirect to the task form
LandingResultsToForm(route, ls) ==
  IF route = "/task-session" /\ SessionRedirects(ls) THEN "/task-form"
  ELSE IF route = "/task-results" /\ ResultsRedirects(ls) THEN "/task-form"
  ELSE route

\* The route shown once the effects of the page mounted at `route` have run
Landing(route, ls) ==
  IF route = "/task-session" /\ SessionRedirects(ls) THEN "/task-form"
  ELSE IF route = "/task-results" /\ ResultsRedirects(ls) THEN "/"
  ELSE route

\* A page mounts at `target` with its initial state and runs its effect, which
\* loads its task from localStorage `ls`; every other page is unmounted, the
\* session timer cleared with its page.
Mount(target, ls) ==
  /\ formData' = InitialFormData
  /\ IF target = "/task-session"
     THEN /\ taskData' = Some(JSONparse(Val(SessionStoredTask(ls))))
          /\ timer' = Some(now)
     ELSE /\ taskData' = Null
          /\ timer' = Null
  /\ elapsedTime' = 0
  /\ isEndingSession' = FALSE
  /\ resultsTaskData' =
       IF target = "/task-results"
       THEN Some(JSONparse(Val(ResultsStoredTask(ls)))) ELSE Null
  /\ uploadedFile' = Null
  /\ isSubmitting' = FALSE
  /\ nasaTlx' = InitialNasaTlx
  /\ likertResponses' = InitialLikert

\* navigate(route), or a history traversal to it: the page shown unmounts and
\* the page of `route` mounts, which may redirect.  Navigating to the route
\* already shown remounts nothing.  `pend` are the requests left in flight.
Show(route, ls, pend) ==
  IF route = page
  THEN /\ pending' = pend
       /\ UNCHANGED <<page, hist, formVars, sessionVars, resultsVars>>
  ELSE /\ page' = Landing(route, ls)
       /\ hist' = hist \cup {route, Landing(route, ls)}
       /\ pending' = Orphaned(pend)
       /\ Mount(Landing(route, ls), ls)

Init ==
  /\ variant \in Variants
  /\ now = 0
  /\ page = "/"
  /\ hist = {"/"}
  /\ localStorage = EmptyStorage
  /\ toast = Null
  /\ pending = <<>>
  /\ formData = InitialFormData
  /\ taskData = Null
  /\ elapsedTime = 0
  /\ isEndingSession = FALSE
  /\ timer = Null
  /\ resultsTaskData = Null
  /\ uploadedFile = Null
  /\ isSubmitting = FALSE
  /\ nasaTlx = InitialNasaTlx
  /\ likertResponses = InitialLikert
  /\ lastCall = Null

\* ------------------------------------------------------- environment
\* Time passes.
Advance ==
  /\ now + ClockStep <= MaxTime
  /\ now' = now + ClockStep
  /\ UNCHANGED <<variant, pageVars, localStorage, toast, pending, lastCall>>

\* The user opens `route` by its URL or reloads: a new document.  The old
\* document's handlers and their requests are gone with it.
Load(route) ==
  /\ page' = Landing(route, localStorage)
  /\ hist' = {route, Landing(route, localStorage)}
  /\ pending' = <<>>
  /\ toast' = Null
  /\ Mount(Landing(route, localStorage), localStorage)
  /\ UNCHANGED <<variant, now, localStorage, lastCall>>

\* The browser's back / forward buttons: the router shows another route of
\* this document's history; handlers already running keep running.
PopState(route) ==
  /\ route \in hist
  /\ route # page
  /\ Show(route, localStorage, pending)
  /\ UNCHANGED <<variant, now, localStorage, toast, lastCall>>

\* ------------------------------------------------------------- Index
\* handleStartSession
HandleStartSession ==
  /\ page = "/"
  /\ Show("/task-form", localStorage, pending)
  /\ UNCHANGED <<variant, now, localStorage, toast, lastCall>>

\* ----------------------------------------------------------- TaskForm
\* handleInputChange(field, value)
HandleInputChange(field, value) ==
  /\ page = "/task-form"
  /\ formData' = [formData EXCEPT ![field] = value]
  /\ UNCHANGED <<variant, now, page, hist, localStorage, toast, pending,
                 sessionVars, resultsVars, lastCall>>

\* handleCategoryChange(category, checked): a checkbox reports the opposite of
\* what it shows
HandleCategoryChange(category, checked) ==
  /\ page = "/task-form"
  /\ checked = ~(\E i \in DOMAIN formData.category : formData.category[i] = category)
  /\ formData' = [formData EXCEPT !.category =
       IF checked THEN Append(@, category) ELSE Without(@, category)]
  /\ UNCHANGED <<variant, now, page, hist, localStorage, toast, pending,
                 sessionVars, resultsVars, lastCall>>

\* A request in flight: the fetch, the method that issued it, the component
\* whose handler awaits it, what that handler captured, and whether the component it belongs to is still mounted.
Request(by, api, data, captured) ==
  [by |-> by, api |-> api, fetch |-> Fetch(api, data), ctx |-> captured, live |-> TRUE]

\* TaskForm.handleSubmit up to its await
TaskFormSubmit ==
  /\ page = "/task-form"
  /\ IF FormIncomplete(formData)
     THEN /\ toast' = Some("Please fill in all fields")
          /\ UNCHANGED <<localStorage, pending>>
     ELSE IF ~IsNumber(formData.participantId)
     THEN /\ toast' = Some("Invalid Participant ID")
          /\ UNCHANGED <<localStorage, pending>>
     ELSE /\ Len(pending) < MaxPending
          /\ localStorage' = setItem(localStorage, "currentTask",
               JSONstringify(MakeTaskData(formData, now)))
          /\ pending' = Append(pending,
               Request("TaskForm", "saveTaskDetailsAndStart", MakeTaskData(formData, now), Null))
          /\ UNCHANGED toast
  /\ UNCHANGED <<variant, now, pageVars, lastCall>>

\* TaskFormSubmitSettle navigating only when the monitor was started
TaskFormSubmitSettleNeedsMonitor(i, o) ==
  /\ pending[i].by = "TaskForm"
  /\ IF ApiSettle(o).resolved /\ ApiSettle(o).value.interventionsStarted
     THEN /\ toast' = Some("Task session started")
          /\ Show("/task-session", localStorage, RemoveAt(pending, i))
     ELSE /\ toast' = Some("Error")
          /\ pending' = RemoveAt(pending, i)
          /\ UNCHANGED pageVars
  /\ UNCHANGED <<variant, now, localStorage, lastCall>>

\* TaskFormSubmitSettle clearing the form when the request failed
TaskFormSubmitSettleResetsForm(i, o) ==
  /\ pending[i].by = "TaskForm"
  /\ IF ApiSettle(o).resolved
     THEN /\ toast' = Some("Task session started")
          /\ Show("/task-session", localStorage, RemoveAt(pending, i))
     ELSE /\ toast' = Some("Error")
          /\ pending' = RemoveAt(pending, i)
          /\ formData' = InitialFormData
          /\ UNCHANGED <<page, hist, sessionVars, resultsVars>>
  /\ UNCHANGED <<variant, now, localStorage, lastCall>>

\* TaskForm.handleSubmit from its await on: request i settles with outcome o
TaskFormSubmitSettle(i, o) ==
  /\ pending[i].by = "TaskForm"
  /\ IF ApiSettle(o).resolved
     THEN /\ toast' = Some("Task session started")
          /\ Show("/task-session", localStorage, RemoveAt(pending, i))
     ELSE /\ toast' = Some("Error")
          /\ pending' = RemoveAt(pending, i)
          /\ UNCHANGED pageVars
  /\ UNCHANGED <<variant, now, localStorage, lastCall>>

\* -------------------------------------------------------- TaskSession
\* Elapsed rounding to the nearest second
ElapsedRounded(t, task) ==
  (t - getTime(task.startTime) + MsPerSecond \div 2) \div MsPerSecond

\* Math.floor((now - startTime) / 1000)
Elapsed(t, task) == (t - getTime(task.startTime)) \div MsPerSecond

\* The interval fires: no earlier than a full interval after it was set or
\* last fired
Tick ==
  /\ page = "/task-session"
  /\ timer # Null
  /\ now >= Val(timer) + TimerInterval
  /\ elapsedTime' = Elapsed(now, Val(taskData))
  /\ timer' = Some(now)
  /\ UNCHANGED <<variant, now, page, hist, localStorage, toast, pending, formVars,
                 taskData, isEndingSession, resultsVars, lastCall>>

\* if (!taskData || isEndingSession) return;
EndIgnored == taskData = Null \/ isEndingSession

\* handleEndSession up to its await
HandleEndSession ==
  /\ page = "/task-session"
  /\ IF EndIgnored
     THEN UNCHANGED <<isEndingSession, pending>>
     ELSE /\ Len(pending) < MaxPending
          /\ isEndingSession' = TRUE
          /\ pending' = Append(pending,
               Request("TaskSession", "stopInterventions", Null,
                       [taskData |-> Val(taskData), elapsedTime |-> elapsedTime]))
  /\ UNCHANGED <<variant, now, page, hist, localStorage, toast, formVars,
                 taskData, elapsedTime, timer, resultsVars, lastCall>>

\* InterventionsStopped testing only that a status came back
InterventionsStoppedAnyStatus(stopResult) == stopResult.status # ""

\* interventionsStopped: stopResult.status === "success"
InterventionsStopped(stopResult) == stopResult.status = "success"

\* The sessionData of the try block and of the catch block
SessionData(captured, t, result) ==
  IF result.resolved
  THEN [endTime |-> toISOString(t), actualDuration |-> captured.elapsedTime,
        interventionsStopped |-> InterventionsStopped(result.value)]
       @@ captured.taskData
  ELSE [endTime |-> toISOString(t), actualDuration |-> captured.elapsedTime,
        interventionsStopped |-> FALSE, error |-> "Failed to stop interventions"]
       @@ captured.taskData

\* HandleEndSessionSettle without the catch block's continuation: a failed
\* stop only reports the error
HandleEndSessionSettleNoCatch(i, o) ==
  /\ pending[i].by = "TaskSession"
  /\ IF ApiSettle(o).resolved
     THEN /\ localStorage' = setItem(localStorage, "completedTask",
               JSONstringify(SessionData(pending[i].ctx, now, ApiSettle(o))))
          /\ toast' = Some("Task session ended")
          /\ Show("/task-results", localStorage', RemoveAt(pending, i))
     ELSE /\ toast' = Some("Error")
          /\ pending' = RemoveAt(pending, i)
          /\ isEndingSession' = IF pending[i].live THEN FALSE ELSE isEndingSession
          /\ UNCHANGED <<localStorage, page, hist, formVars, taskData, elapsedTime,
                         timer, resultsVars>>
  /\ UNCHANGED <<variant, now, lastCall>>

\* handleEndSession from its await on
HandleEndSessionSettle(i, o) ==
  /\ pending[i].by = "TaskSession"
  /\ localStorage' = setItem(localStorage, "completedTask",
       JSONstringify(SessionData(pending[i].ctx, now, ApiSettle(o))))
  /\ toast' = Some("Task session ended")
  /\ Show("/task-results", localStorage', RemoveAt(pending, i))
  /\ UNCHANGED <<variant, now, lastCall>>

\* -------------------------------------------------- TaskResults (mac)
\* handleNasaTlxChange(field, value)
HandleNasaTlxChange(field, value) ==
  /\ variant = "mac"
  /\ page = "/task-results"
  /\ nasaTlx' = [nasaTlx EXCEPT ![field] = value]
  /\ UNCHANGED <<variant, now, page, hist, localStorage, toast, pending, formVars,
                 sessionVars, resultsTaskData, uploadedFile, isSubmitting,
                 likertResponses, lastCall>>

\* handleLikertChange(field, value)
HandleLikertChange(field, value) ==
  /\ variant = "mac"
  /\ page = "/task-results"
  /\ likertResponses' = [likertResponses EXCEPT ![field] = value]
  /\ UNCHANGED <<variant, now, page, hist, localStorage, toast, pending, formVars,
                 sessionVars, resultsTaskData, uploadedFile, isSubmitting,
                 nasaTlx, lastCall>>

\* handleFileUpload: if (file) setUploadedFile(file)
HandleFileUpload(file) ==
  /\ variant = "mac"
  /\ page = "/task-results"
  /\ uploadedFile' = IF file # Null THEN file ELSE uploadedFile
  /\ UNCHANGED <<variant, now, page, hist, localStorage, toast, pending, formVars,
                 sessionVars, resultsTaskData, isSubmitting, nasaTlx,
                 likertResponses, lastCall>>

\* AssessmentIncomplete without its second test
AssessmentIncompleteSkipsLikert(nasa, likert) == ~Complete(nasa)

\* if (!nasaTlxComplete || !likertComplete)
AssessmentIncomplete(nasa, likert) == ~Complete(nasa) \/ ~Complete(likert)

\* if (!taskData?.participantId)
ParticipantIdMissing(task) ==
  \/ task = Null
  \/ "participantId" \notin DOMAIN Val(task)
  \/ Len(Val(task).participantId) = 0

\* const assessmentData = { ... }
AssessmentData(task, file, nasa, likert, t) ==
  [participantId |-> task.participantId, batch |-> task.batch,
   category |-> task.category, taskDescription |-> task.taskDescription,
   name |-> task.name, estimatedTime |-> task.estimatedTime,
   file |-> IF file # Null THEN Val(file) ELSE "No file uploaded",
   nasaTlx |-> nasa, likertResponses |-> likert, submittedAt |-> toISOString(t)]

\* The Submit Assessment button: disabled={isSubmitting}
SubmitDisabled == isSubmitting

\* TaskResults.handleSubmit up to its await
ResultsSubmit ==
  /\ variant = "mac"
  /\ page = "/task-results"
  /\ resultsTaskData # Null
  /\ ~SubmitDisabled
  /\ IF AssessmentIncomplete(nasaTlx, likertResponses)
     THEN /\ toast' = Some("Please complete all assessment forms")
          /\ UNCHANGED <<isSubmitting, pending>>
     ELSE IF ParticipantIdMissing(resultsTaskData)
     THEN /\ toast' = Some("Participant ID missing")
          /\ UNCHANGED <<isSubmitting, pending>>
     ELSE /\ Len(pending) < MaxPending
          /\ isSubmitting' = TRUE
          /\ pending' = Append(pending,
               Request("TaskResults", "saveAssessment",
                 AssessmentData(Val(resultsTaskData), uploadedFile, nasaTlx,
                                likertResponses, now),
                 AssessmentData(Val(resultsTaskData), uploadedFile, nasaTlx,
                                likertResponses, now)))
          /\ UNCHANGED toast
  /\ UNCHANGED <<variant, now, page, hist, localStorage, formVars, sessionVars,
                 resultsTaskData, uploadedFile, nasaTlx, likertResponses, lastCall>>

\* StoreResults without its first removeItem
StoreResultsKeepsCurrentTask(ls, assessmentData) ==
  removeItem(setItem(ls, "sessionResults", JSONstringify(assessmentData)), "completedTask")

\* The three localStorage calls after the await
StoreResults(ls, assessmentData) ==
  removeItem(removeItem(setItem(ls, "sessionResults", JSONstringify(assessmentData)),
                        "currentTask"),
             "completedTask")

\* AfterSubmit without the finally block
AfterSubmitStuck(live, submitting) == submitting

\* finally { setIsSubmitting(false) }: reaches the component only if it is
\* still the mounted one
AfterSubmit(live, submitting) == IF live THEN FALSE ELSE submitting

\* TaskResults.handleSubmit from its await on
ResultsSubmitSettle(i, o) ==
  /\ pending[i].by = "TaskResults"
  /\ IF ApiSettle(o).resolved
     THEN /\ localStorage' = StoreResults(localStorage, pending[i].ctx)
          /\ toast' = Some("Assessment completed!")
          /\ Show("/", localStorage', RemoveAt(pending, i))
     ELSE /\ toast' = Some("Failed to save assessment")
          /\ pending' = RemoveAt(pending, i)
          /\ isSubmitting' = AfterSubmit(pending[i].live, isSubmitting)
          /\ UNCHANGED <<localStorage, page, hist, formVars, sessionVars,
                         resultsTaskData, uploadedFile, nasaTlx, likertResponses>>
  /\ UNCHANGED <<variant, now, lastCall>>

\* ---------------------------------------------- TaskResults (windows)
\* handleFeedbackClick (the Microsoft Forms tab it opens is outside the app)
HandleFeedbackClick ==
  /\ variant = "windows"
  /\ page = "/task-results"
  /\ resultsTaskData # Null
  /\ localStorage' = removeItem(removeItem(localStorage, "currentTask"), "completedTask")
  /\ Show("/", localStorage', pending)
  /\ UNCHANGED <<variant, now, toast, lastCall>>

\* ------------------------------------------ ApiService, called directly
\* Any of the six methods is called; its fetch goes out.
ApiCall(api, data) ==
  /\ Len(pending) < MaxPending
  /\ pending' = Append(pending, Request("caller", api, data, Null))
  /\ UNCHANGED <<variant, now, pageVars, localStorage, toast, lastCall>>

\* The call's promise settles.
ApiCallSettle(i, o) ==
  /\ pending[i].by = "caller"
  /\ pending' = RemoveAt(pending, i)
  /\ lastCall' = Some([api |-> pending[i].api, outcome |-> o, result |-> ApiSettle(o)])
  /\ UNCHANGED <<variant, now, pageVars, localStorage, toast>>

\* ------------------------------------------------------ specifications
\* The order of the inputs on the task form and on the assessment page
FormOrder ==
  <<"name", "participantId", "batch", "systemType", "category", "taskDescription",
    "estimatedTime">>
AssessmentOrder ==
  <<"mental", "physical", "temporal", "performance", "effort", "frustration",
    "accuracy", "effectiveness", "personalisation">>

Blank(r, field) ==
  IF field \in {"participantId", "category"} THEN Len(r[field]) = 0 ELSE r[field] = ""

\* The first input of `order` that record `r` leaves blank, if any
FirstBlank(order, r) ==
  LET blanks == {i \in DOMAIN order : Blank(r, order[i])} IN
  IF blanks = {} THEN Null
  ELSE Some(order[CHOOSE i \in blanks : \A j \in blanks : i <= j])

AllAnswers == [f \in NasaTlxFields \cup LikertFields |->
                 IF f \in NasaTlxFields THEN nasaTlx[f] ELSE likertResponses[f]]

\* A user who works down a form fills in the first blank input, and may
\* submit at any point.
FormTurn(field) == FirstBlank(FormOrder, formData) = Some(field)
AssessmentTurn(field) == FirstBlank(AssessmentOrder, AllAnswers) = Some(field)

\* How the user moves between pages without using a form
Navigation ==
  \/ \E route \in Routes : Load(route)
  \/ \E route \in Routes : PopState(route)
  \/ HandleStartSession

\* The handlers behind the pages' buttons
Clicks ==
  \/ TaskFormSubmit
  \/ HandleEndSession
  \/ ResultsSubmit
  \/ HandleFeedbackClick

\* A request in flight settles and the handler awaiting it runs on
Settles ==
  \/ \E i \in DOMAIN pending : \E o \in Outcomes(pending[i].api) : TaskFormSubmitSettle(i, o)
  \/ \E i \in DOMAIN pending : \E o \in Outcomes(pending[i].api) : HandleEndSessionSettle(i, o)
  \/ \E i \in DOMAIN pending : \E o \in Outcomes(pending[i].api) : ResultsSubmitSettle(i, o)

\* A user who works down each form
OrderedEdits ==
  \/ \E field \in FormFields : \E value \in Entries(field) :
       FormTurn(field) /\ HandleInputChange(field, value)
  \/ \E category \in Categories : FormTurn("category") /\ HandleCategoryChange(category, TRUE)
  \/ \E field \in NasaTlxFields : \E value \in Answers :
       AssessmentTurn(field) /\ HandleNasaTlxChange(field, value)
  \/ \E field \in LikertFields : \E value \in Answers :
       AssessmentTurn(field) /\ HandleLikertChange(field, value)

\* A user who edits any input in any order, any number of times
FreeEdits ==
  \/ \E field \in FormFields : \E value \in InputValues(field) : HandleInputChange(field, value)
  \/ \E category \in Categories : \E checked \in BOOLEAN : HandleCategoryChange(category, checked)
  \/ \E field \in NasaTlxFields : \E value \in Answers : HandleNasaTlxChange(field, value)
  \/ \E field \in LikertFields : \E value \in Answers : HandleLikertChange(field, value)
  \/ \E file \in {Null, Some("notes.pdf")} : HandleFileUpload(file)

\* The application within one tick of the clock: every navigation, every
\* click and every order in which the requests in flight settle
Next ==
  \/ Navigation
  \/ Clicks
  \/ Settles
  \/ OrderedEdits

Spec == Init /\ [][Next]_vars

\* The application as time passes, used by a user who waits for each response
\* and moves between pages by the pages' buttons or by reloading
NextClock ==
  \/ Advance
  \/ Tick
  \/ \E route \in Routes : Load(route)
  \/ HandleStartSession
  \/ pending = <<>> /\ Clicks
  \/ Settles
  \/ OrderedEdits

SpecClock == Init /\ [][NextClock]_vars

\* The forms: every input edited in any order, by a user who waits for each
\* response and moves between pages by the pages' buttons
NextInputs ==
  \/ HandleStartSession
  \/ pending = <<>> /\ Clicks
  \/ Settles
  \/ FreeEdits

SpecInputs == Init /\ [][NextInputs]_vars

\* ApiService alone: its methods called with any argument, each call settling
\* in any of the ways a fetch can end
ApiArguments == {[participantId |-> <<"7">>], [participantId |-> <<"8">>]}

NextApi ==
  \/ \E api \in ApiMethods : \E data \in ApiArguments : ApiCall(api, data)
  \/ \E i \in DOMAIN pending : \E o \in Outcomes(pending[i].api) : ApiCallSettle(i, o)

SpecApi == Init /\ [][NextApi]_vars

\* A second participant's name for the task form's first input
OtherNames == {"Bob"}

\* The mac build, its results page being the one that sends assessments
InitTasks == Init /\ variant = "mac"

\* The mac build used for several tasks set up under different names: every
\* history traversal, every click and every order in which the requests in
\* flight settle
NextTasks ==
  \/ HandleStartSession
  \/ \E route \in Routes : PopState(route)
  \/ TaskFormSubmit
  \/ HandleEndSession
  \/ ResultsSubmit
  \/ Settles
  \/ OrderedEdits
  \/ \E value \in OtherNames : FormTurn("name") /\ HandleInputChange("name", value)

SpecTasks == InitTasks /\ [][NextTasks]_vars

\* ------------------------------------------------------------ claims
\* An outcome for which an ApiService method returns: the fetch succeeded, the
\* body parsed and the response was OK
Accepted(o) == o.fetched /\ o.parsed /\ o.ok

\* The request just issued, when a step issued one
Issued == Len(pending') = Len(pending) + 1
Newest == pending'[Len(pending')]

\* C1: starting from empty localStorage the steps occur in the order task
\* setup, running session, end, assessment.  The session page shows a running
\* task only while currentTask is stored, and only TaskForm.handleSubmit
\* stores currentTask; the results page shows its content only once
\* completedTask is stored, and only handleEndSession's continuation stores
\* completedTask; an end is requested only from a session page showing a task
\* and an assessment only from a results page showing its content.
C1_LifecycleOrder ==
  [][/\ (page' = "/task-session" /\ taskData' # Null) =>
          localStorage'["currentTask"] = Some(JSONstringify(Val(taskData')))
     /\ (localStorage'["currentTask"] # localStorage["currentTask"]
         /\ localStorage'["currentTask"] # Null) => TaskFormSubmit
     /\ (page' = "/task-results" /\ resultsTaskData' # Null /\ resultsTaskData' # resultsTaskData)
          => localStorage'["completedTask"] = Some(JSONstringify(Val(resultsTaskData')))
     /\ (localStorage'["completedTask"] # localStorage["completedTask"]
         /\ localStorage'["completedTask"] # Null) =>
          \E i \in DOMAIN pending : \E o \in Outcomes("stopInterventions") :
            HandleEndSessionSettle(i, o)
     /\ (Issued /\ Newest.api = "stopInterventions") =>
          (page = "/task-session" /\ taskData # Null /\ Newest.ctx.taskData = Val(taskData))
     /\ (Issued /\ Newest.api = "saveAssessment") =>
          (page = "/task-results" /\ resultsTaskData # Null)]_vars

\* C1's case: the last step reached in order, the results page showing the
\* completed task that handleEndSession stored
C1_Witness ==
  /\ page = "/task-results"
  /\ resultsTaskData # Null
  /\ localStorage["completedTask"] = Some(JSONstringify(Val(resultsTaskData)))
  /\ localStorage["currentTask"] # Null

\* C2: once End Task Session was accepted (a task loaded, no end in
\* progress) a stop-interventions request is in flight, and however it
\* settles -- status "success", another status, or a failure -- the handler
\* writes completedTask and navigates to /task-results.
C2_EndAlwaysCompletes ==
  [][/\ (HandleEndSession /\ taskData # Null /\ ~isEndingSession) =>
          (Issued /\ Newest.api = "stopInterventions" /\ Newest.fetch.method = "POST")
     /\ \A i \in DOMAIN pending : \A o \in Outcomes("stopInterventions") :
          HandleEndSessionSettle(i, o) =>
            /\ localStorage'["completedTask"] # Null
            /\ JSONparse(Val(localStorage'["completedTask"])).endTime = toISOString(now)
            /\ page' = "/task-results"
            /\ "/task-results" \in hist'
            /\ Len(pending') = Len(pending) - 1]_vars

\* C2's case: the stop request failed and the session was ended all the same
C2_Witness ==
  /\ page = "/task-results"
  /\ localStorage["completedTask"] # Null
  /\ "error" \in DOMAIN JSONparse(Val(localStorage["completedTask"]))
  /\ toast = Some("Task session ended")

\* C3: TaskForm navigates to /task-session only when saveTaskDetailsAndStart
\* resolved with an OK response, and then does so whether or not the response
\* reports interventionsStarted (the session page shows the task, or redirects
\* if currentTask has been removed meanwhile); the request is a POST to
\* save-task-details whose body carries participantId, batch, category and
\* taskDescription as entered in the form.
C3_NavigateAfterSave ==
  [][/\ TaskFormSubmit => page' = page
     /\ (TaskFormSubmit /\ Issued) =>
          /\ Newest.fetch.method = "POST"
          /\ Newest.fetch.url = <<"http://localhost:5000", "api", "save-task-details">>
          /\ JSONparse(Val(Newest.fetch.body)).participantId = formData.participantId
          /\ JSONparse(Val(Newest.fetch.body)).batch = formData.batch
          /\ JSONparse(Val(Newest.fetch.body)).category = formData.category
          /\ JSONparse(Val(Newest.fetch.body)).taskDescription = formData.taskDescription
     /\ \A i \in DOMAIN pending : \A o \in Outcomes("saveTaskDetailsAndStart") :
          TaskFormSubmitSettle(i, o) =>
            IF Accepted(o)
            THEN /\ "/task-session" \in hist'
                 /\ page' = IF localStorage["currentTask"] # Null
                            THEN "/task-session" ELSE "/task-form"
            ELSE page' = page /\ hist' = hist]_vars

\* C3's case: the save was accepted and the session page shows the task
C3_Witness ==
  /\ page = "/task-session"
  /\ taskData # Null
  /\ toast = Some("Task session started")
  /\ pending = <<>>

\* C4: when saveTaskDetailsAndStart fails (network error, unparsable body or
\* non-OK response) TaskForm shows the error toast, navigates nowhere and
\* keeps the form data; and every submit of a valid form, after a failure as
\* before one, issues a fresh save-task-details request.
C4_SaveFailureRetry ==
  [][/\ \A i \in DOMAIN pending : \A o \in Outcomes("saveTaskDetailsAndStart") :
          (TaskFormSubmitSettle(i, o) /\ ~Accepted(o)) =>
            /\ toast' = Some("Error")
            /\ page' = page
            /\ hist' = hist
            /\ formData' = formData
            /\ Len(pending') = Len(pending) - 1
     /\ (TaskFormSubmit /\ ~FormIncomplete(formData) /\ IsNumber(formData.participantId)) =>
          (Issued /\ Newest.api = "saveTaskDetailsAndStart"
                  /\ JSONparse(Val(Newest.fetch.body)) = MakeTaskData(formData, now))]_vars

\* C4's case: after a failed save the form is still filled in and a second
\* request has been issued from it
C4_Witness ==
  /\ page = "/task-form"
  /\ toast = Some("Error")
  /\ ~FormIncomplete(formData)
  /\ Len(pending) = 1
  /\ pending[1].api = "saveTaskDetailsAndStart"
  /\ pending[1].live

\* C5: when saveAssessment fails the handler leaves localStorage unchanged,
\* navigates nowhere, keeps the entered answers and sets isSubmitting of the
\* page that submitted (if it is still the mounted one) to false, so that its
\* submit button is enabled again.
C5_AssessmentFailure ==
  [][\A i \in DOMAIN pending : \A o \in Outcomes("saveAssessment") :
       (ResultsSubmitSettle(i, o) /\ ~Accepted(o)) =>
         /\ localStorage' = localStorage
         /\ page' = page
         /\ hist' = hist
         /\ nasaTlx' = nasaTlx
         /\ likertResponses' = likertResponses
         /\ uploadedFile' = uploadedFile
         /\ resultsTaskData' = resultsTaskData
         /\ pending[i].live => (isSubmitting /\ ~isSubmitting')]_vars

\* C5's case: a complete assessment whose save failed, still on the page and
\* ready to be submitted again
C5_Witness ==
  /\ page = "/task-results"
  /\ toast = Some("Failed to save assessment")
  /\ ~isSubmitting
  /\ Complete(nasaTlx)
  /\ Complete(likertResponses)
  /\ localStorage["completedTask"] # Null
  /\ localStorage["sessionResults"] = Null
  /\ pending = <<>>

\* C6: at most one request (save-task-details, stop-interventions or
\* save-assessment) is outstanding in every reachable state.
C6_AtMostOneRequest == Len(pending) <= 1

\* C7: TaskForm.handleSubmit writes currentTask or sends a request only
\* when name, participantId, batch, taskDescription, estimatedTime and
\* systemType are all non-empty and a category is selected, so the page it
\* navigates to afterwards is only ever reached for such a form; otherwise
\* it shows the "Please fill in all fields" toast and changes neither
\* localStorage nor the page.
C7_SubmitNeedsAllFields ==
  [][/\ TaskFormSubmit =>
          IF /\ formData.name # ""
             /\ formData.participantId # <<>>
             /\ formData.batch # ""
             /\ formData.taskDescription # ""
             /\ formData.estimatedTime # ""
             /\ formData.systemType # ""
             /\ Len(formData.category) >= 1
          THEN page' = page
          ELSE /\ toast' = Some("Please fill in all fields")
               /\ localStorage' = localStorage
               /\ pending' = pending
               /\ page' = page
               /\ hist' = hist
               /\ formData' = formData
     /\ \A i \in DOMAIN pending' :
          pending'[i].api = "saveTaskDetailsAndStart" =>
            LET body == JSONparse(Val(pending'[i].fetch.body)) IN
            /\ body.name # ""
            /\ body.participantId # <<>>
            /\ body.batch # ""
            /\ body.taskDescription # ""
            /\ body.estimatedTime # ""
            /\ body.systemType # ""
            /\ Len(body.category) >= 1]_vars

\* C7's case: a form with everything but the system type was submitted and
\* refused
C7_Witness ==
  /\ page = "/task-form"
  /\ toast = Some("Please fill in all fields")
  /\ formData.name # ""
  /\ formData.participantId # <<>>
  /\ formData.batch # ""
  /\ formData.taskDescription # ""
  /\ formData.estimatedTime # ""
  /\ Len(formData.category) >= 1
  /\ formData.systemType = ""
  /\ localStorage["currentTask"] = Null
  /\ pending = <<>>

\* C8: saveAssessment is requested only when all six NASA-TLX dimensions and
\* all three Likert items are answered and the completed task has a
\* participantId; otherwise handleSubmit shows a toast, sends nothing, leaves
\* localStorage unchanged and does not set isSubmitting.
C8_AssessmentNeedsAllAnswers ==
  [][/\ ResultsSubmit =>
          IF /\ \A f \in NasaTlxFields : nasaTlx[f] # ""
             /\ \A f \in LikertFields : likertResponses[f] # ""
             /\ resultsTaskData # Null
             /\ Val(resultsTaskData).participantId # <<>>
          THEN localStorage' = localStorage
          ELSE /\ toast' \in {Some("Please complete all assessment forms"),
                              Some("Participant ID missing")}
               /\ pending' = pending
               /\ localStorage' = localStorage
               /\ ~isSubmitting'
               /\ page' = page
     /\ \A i \in DOMAIN pending' :
          pending'[i].api = "saveAssessment" =>
            LET body == JSONparse(Val(pending'[i].fetch.body)) IN
            /\ \A f \in NasaTlxFields : body.nasaTlx[f] # ""
            /\ \A f \in LikertFields : body.likertResponses[f] # ""
            /\ body.participantId # <<>>]_vars

\* C8's case: every NASA-TLX dimension answered, a Likert item missing, and
\* the submission refused
C8_Witness ==
  /\ page = "/task-results"
  /\ toast = Some("Please complete all assessment forms")
  /\ \A f \in NasaTlxFields : nasaTlx[f] # ""
  /\ \E f \in LikertFields : likertResponses[f] = ""
  /\ \E f \in LikertFields : likertResponses[f] # ""
  /\ ~isSubmitting
  /\ pending = <<>>
  /\ localStorage["sessionResults"] = Null

\* The README's API Endpoints: the method and path of each documented one
Documented(api) ==
  CASE api = "saveTaskDetailsAndStart" -> <<"POST", <<"api", "save-task-details">>>>
    [] api = "stopInterventions" -> <<"POST", <<"api", "stop-interventions">>>>
    [] api = "getStatus" -> <<"GET", <<"api", "status">>>>
    [] api = "getTaskDetails" -> <<"GET", <<"api", "get-task-details">>>>

\* C9: each ApiService method sends exactly one request, the documented ones
\* to their documented endpoint (POST /api/save-task-details,
\* POST /api/stop-interventions, GET /api/status, GET /api/get-task-details);
\* it returns the parsed body when the response is OK, and rejects whenever
\* the fetch fails, the body cannot be parsed or the response is not OK.
C9_ApiServiceContract ==
  [][/\ \A api \in ApiMethods : \A data \in ApiArguments :
          ApiCall(api, data) =>
            /\ Issued
            /\ SubSeq(pending', 1, Len(pending)) = pending
            /\ api \in {"saveTaskDetailsAndStart", "stopInterventions", "getStatus",
                        "getTaskDetails"} =>
                 /\ Newest.fetch.method = Documented(api)[1]
                 /\ Tail(Newest.fetch.url) = Documented(api)[2]
            /\ api = "saveTaskDetailsAndStart" => Newest.fetch.body = Some(JSONstringify(data))
     /\ \A i \in DOMAIN pending : \A o \in Outcomes(pending[i].api) :
          ApiCallSettle(i, o) =>
            /\ Len(pending') = Len(pending) - 1
            /\ lastCall' # Null
            /\ Val(lastCall').result.resolved = (o.fetched /\ o.parsed /\ o.ok)
            /\ Val(lastCall').result.resolved => Val(lastCall').result.value = Val(o.body)]_vars

\* C9's case: getStatus got a response that parsed but was not OK, and rejected
C9_Witness ==
  /\ lastCall # Null
  /\ Val(lastCall).api = "getStatus"
  /\ Val(lastCall).outcome.fetched
  /\ Val(lastCall).outcome.parsed
  /\ ~Val(lastCall).outcome.ok
  /\ ~Val(lastCall).result.resolved

\* C10: the completedTask record written by handleEndSession holds every
\* field of the task the session page loaded from currentTask, unchanged,
\* plus endTime and actualDuration; its interventionsStopped is true exactly
\* when stopInterventions returned status "success"; its error field is
\* present exactly when stopInterventions threw; and currentTask is left as
\* it was.
C10_CompletedTaskRecord ==
  [][/\ (HandleEndSession /\ Issued) =>
          Some(JSONstringify(Newest.ctx.taskData)) = localStorage["currentTask"]
     /\ \A i \in DOMAIN pending : \A o \in Outcomes("stopInterventions") :
          HandleEndSessionSettle(i, o) =>
            LET loaded == pending[i].ctx.taskData
                written == JSONparse(Val(localStorage'["completedTask"]))
            IN
            /\ \A f \in DOMAIN loaded : f \in DOMAIN written /\ written[f] = loaded[f]
            /\ {"endTime", "actualDuration", "interventionsStopped"} \subseteq DOMAIN written
            /\ DOMAIN written \subseteq
                 DOMAIN loaded \cup {"endTime", "actualDuration", "interventionsStopped", "error"}
            /\ written.interventionsStopped =
                 (Accepted(o) /\ Val(o.body).status = "success")
            /\ ("error" \in DOMAIN written) = ~Accepted(o)
            /\ localStorage'["currentTask"] = localStorage["currentTask"]]_vars

\* C10's case: the stop request returned a status other than "success", and
\* the record says so without an error field
C10_Witness ==
  /\ localStorage["completedTask"] # Null
  /\ localStorage["currentTask"] # Null
  /\ ~JSONparse(Val(localStorage["completedTask"])).interventionsStopped
  /\ "error" \notin DOMAIN JSONparse(Val(localStorage["completedTask"]))
  /\ JSONparse(Val(localStorage["completedTask"])).participantId =
       JSONparse(Val(localStorage["currentTask"])).participantId

\* C11: currentTask is stored only for a task whose details the backend has
\* accepted: when the save-task-details request of a task fails, that task is
\* not left behind in currentTask.
C11_CurrentTaskOnlyAccepted ==
  [][\A i \in DOMAIN pending : \A o \in Outcomes("saveTaskDetailsAndStart") :
       (TaskFormSubmitSettle(i, o) /\ ~Accepted(o)) =>
         localStorage'["currentTask"] # pending[i].fetch.body]_vars

\* The completedTask record stored in `ls` is the record of `task`: it holds
\* every field of the task, startTime included, with the same value
EndedTask(task, ls) ==
  /\ ls["completedTask"] # Null
  /\ \A f \in DOMAIN task :
       /\ f \in DOMAIN JSONparse(Val(ls["completedTask"]))
       /\ JSONparse(Val(ls["completedTask"]))[f] = task[f]

\* C12: stop-interventions is requested at most once for each task: once a
\* session has been ended and its completedTask record written, no step makes
\* the session page show that task as running, and no step requests
\* stop-interventions for it again.
C12_EndedOnce ==
  [][/\ (page' = "/task-session" /\ taskData' # Null) =>
          ~EndedTask(Val(taskData'), localStorage')
     /\ (Issued /\ Newest.api = "stopInterventions") =>
          ~EndedTask(Newest.ctx.taskData, localStorage)]_vars

\* C13: in every completedTask record, actualDuration is the number of whole
\* seconds between the record's startTime and its endTime.
C13_DurationMatchesTimes ==
  localStorage["completedTask"] # Null =>
    JSONparse(Val(localStorage["completedTask"])).actualDuration =
      (getTime(JSONparse(Val(localStorage["completedTask"])).endTime)
       - getTime(JSONparse(Val(localStorage["completedTask"])).startTime)) \div 1000

\* C14: when the results step completes -- saveAssessment resolved (mac), or
\* Feedback Form clicked (windows) -- currentTask and completedTask are both
\* removed and the app shows "/", so that /task-session and /task-results
\* redirect when visited next; and sessionResults changes only when the
\* backend accepted an assessment, to exactly the payload that was sent.
C14_ResultsCleanup ==
  [][/\ \A i \in DOMAIN pending : \A o \in Outcomes("saveAssessment") :
          (ResultsSubmitSettle(i, o) /\ Accepted(o)) =>
            /\ localStorage'["currentTask"] = Null
            /\ localStorage'["completedTask"] = Null
            /\ localStorage'["sessionResults"] = pending[i].fetch.body
            /\ page' = "/"
            /\ Landing("/task-session", localStorage') = "/task-form"
            /\ Landing("/task-results", localStorage') = "/"
     /\ HandleFeedbackClick =>
          /\ localStorage'["currentTask"] = Null
          /\ localStorage'["completedTask"] = Null
          /\ localStorage'["sessionResults"] = localStorage["sessionResults"]
          /\ page' = "/"
          /\ Landing("/task-session", localStorage') = "/task-form"
          /\ Landing("/task-results", localStorage') = "/"
     /\ localStorage'["sessionResults"] # localStorage["sessionResults"] =>
          \E i \in DOMAIN pending : \E o \in Outcomes("saveAssessment") :
            /\ variant = "mac"
            /\ Accepted(o)
            /\ ResultsSubmitSettle(i, o)]_vars

\* C14's case: the assessment was accepted; the payload is kept in
\* sessionResults, both task records are gone and the landing page is shown
C14_Witness ==
  /\ variant = "mac"
  /\ page = "/"
  /\ toast = Some("Assessment completed!")
  /\ localStorage["sessionResults"] # Null
  /\ localStorage["currentTask"] = Null
  /\ localStorage["completedTask"] = Null
  /\ pending = <<>>

\* C15: visited while currentTask is absent, the session page navigates to
\* /task-form, starts no timer and shows no task; visited while completedTask
\* is absent, the results page navigates to "/" and shows no content; the
\* session page is shown only with a stored currentTask, the results page's
\* content only after a stored completedTask was loaded; and the timer is
\* cleared whenever the session page is left, so that it ticks only on a
\* mounted session page.
C15_RedirectsAndTimer ==
  [][/\ \A route \in Routes :
          Load(route) =>
            /\ (route = "/task-session" /\ localStorage["currentTask"] = Null) =>
                 (page' = "/task-form" /\ timer' = Null /\ taskData' = Null)
            /\ (route = "/task-results" /\ localStorage["completedTask"] = Null) =>
                 (page' = "/" /\ resultsTaskData' = Null)
     /\ page' = "/task-session" =>
          (localStorage'["currentTask"] # Null /\ taskData' # Null)
     /\ (page' = "/task-results" /\ page # "/task-results") =>
          (localStorage'["completedTask"] # Null /\ resultsTaskData' # Null)
     /\ page' # "/task-session" => (timer' = Null /\ taskData' = Null)
     /\ page' # "/task-results" => resultsTaskData' = Null
     /\ Tick => (page = "/task-session" /\ timer # Null /\ taskData # Null)
     /\ timer' # timer => (Tick \/ page' # page \/ \E route \in Routes : Load(route))]_vars

\* C15's case: /task-session was opened without a currentTask and the task
\* form is shown instead, with no timer running
C15_Witness ==
  /\ page = "/task-form"
  /\ hist = {"/task-session", "/task-form"}
  /\ localStorage["currentTask"] = Null
  /\ timer = Null
  /\ taskData = Null
  /\ now > 0

\* C16: on the mounted session page, after each tick of the timer elapsedTime
\* is floor((now - startTime) / 1000), startTime being that of the persisted
\* currentTask: whenever the page was mounted or reloaded, a tick shows the
\* whole seconds since the task started, never a negative number and never
\* less than was shown before the tick.
C16_ElapsedAfterTick ==
  [][Tick =>
       /\ localStorage["currentTask"] # Null
       /\ elapsedTime' * 1000 <=
            now - getTime(JSONparse(Val(localStorage["currentTask"])).startTime)
       /\ now - getTime(JSONparse(Val(localStorage["currentTask"])).startTime) <
            (elapsedTime' + 1) * 1000
       /\ elapsedTime' >= 0
       /\ elapsedTime' >= elapsedTime]_vars

\* C16's case: a task started at time 0 whose session page was reloaded, and
\* whose timer has just ticked at 1500 ms, showing one second
C16_Witness ==
  /\ page = "/task-session"
  /\ hist = {"/task-session"}
  /\ taskData # Null
  /\ getTime(Val(taskData).startTime) = 0
  /\ now = 1500
  /\ timer = Some(now)
  /\ elapsedTime = 1

\* The stop-interventions requests in flight among `pend`
StopsOutstanding(pend) == SelectSeq(pend, LAMBDA r : r.api = "stopInterventions")

\* C17: while an end-session is in progress (isEndingSession true) a further
\* End Task Session click changes nothing, so at most one stop-interventions
\* request is outstanding at a time; each request that settles writes
\* completedTask once, and isEndingSession is false once the handler has
\* finished, however the request settled.
C17_EndGuard ==
  [][/\ (HandleEndSession /\ isEndingSession) => UNCHANGED vars
     /\ Len(StopsOutstanding(pending')) <= 1
     /\ \A i \in DOMAIN pending : \A o \in Outcomes("stopInterventions") :
          HandleEndSessionSettle(i, o) =>
            /\ ~isEndingSession'
            /\ Len(StopsOutstanding(pending')) = Len(StopsOutstanding(pending)) - 1]_vars

\* The fields an assessment payload takes over from the task
TaskFieldsOfPayload ==
  {"participantId", "batch", "category", "taskDescription", "name", "estimatedTime"}

\* C18: participantId, batch, category, taskDescription, name and
\* estimatedTime of every assessment payload sent to save-assessment are the
\* values of the task form submission of the session most recently ended:
\* a form submission stores its values in currentTask, the end of a session
\* stores the values of the task it loaded in completedTask, and a payload
\* carries the values of the completedTask record stored when it is sent.
C18_PayloadOfLastEndedSession ==
  [][/\ (TaskFormSubmit /\ Issued) =>
          \A f \in TaskFieldsOfPayload :
            JSONparse(Val(localStorage'["currentTask"]))[f] = formData[f]
     /\ \A i \in DOMAIN pending : \A o \in Outcomes("stopInterventions") :
          HandleEndSessionSettle(i, o) =>
            \A f \in TaskFieldsOfPayload :
              JSONparse(Val(localStorage'["completedTask"]))[f] = pending[i].ctx.taskData[f]
     /\ (Issued /\ Newest.api = "saveAssessment") =>
          /\ localStorage["completedTask"] # Null
          /\ \A f \in TaskFieldsOfPayload :
               JSONparse(Val(Newest.fetch.body))[f] =
                 JSONparse(Val(localStorage["completedTask"]))[f]]_vars

====
